---- MODULE Spec2Model ----
(***************************************************************************)
(* The air-quality dashboard script "FFINAL_PROJECT (1).py" as a state     *)
(* machine.  The script is straight-line code that Streamlit runs from top *)
(* to bottom once at start-up and again after every widget change, so the  *)
(* state is the CSV file, the four widget values and every table the       *)
(* script computes; each action is one complete run of the script.         *)
(*                                                                         *)
(* Columns that no modelled table reads (City, Location_Info) are left out *)
(* of the records.  Numbers are integers; a mean is kept as the exact      *)
(* fraction sum/count and a standard deviation as the exact sample         *)
(* variance, so that no rounding is invented.  A missing cell (pandas'     *)
(* NaN) of a text column is the text "NaN", which is what read_csv turns   *)
(* into NaN; a numeric NaN is the empty sequence NaN and a number n that   *)
(* may be NaN is <<n>>.                                                    *)
(***************************************************************************)
EXTENDS Integers, Sequences, FiniteSets, TLC

VARIABLES
    pc,                    \* "start" before the first run, "ready" after a run
    csv,                   \* the rows of air_quality_index.csv, as text cells
    data,                  \* the cleaned DataFrame of the last run
    aqi_threshold,         \* slider, line 121
    min_cities,            \* slider, line 123
    search_country,        \* text input, line 186 (a sequence of characters)
    selected_category,     \* selectbox, line 355
    country_stats,         \* lines 126-132
    north_avg,             \* line 157
    south_avg,             \* line 157
    pm25_categories_list,  \* lines 160-164
    raised,                \* TRUE when the run ended in an exception (line 190)
    display_stats,         \* lines 188-198
    warning,               \* st.warning of line 194 was shown
    below,                 \* lines 223-226
    above,                 \* lines 238-239
    hemi_stats,            \* lines 264-267
    east_west_stats,       \* lines 282-285
    pm25_pivot,            \* lines 307-321
    country_percentages,   \* lines 365-368, before the sort of line 369
    top_10,                \* lines 369-376
    map_data               \* lines 391-412

vars == <<pc, csv, data, aqi_threshold, min_cities, search_country,
          selected_category, country_stats, north_avg, south_avg,
          pm25_categories_list, raised, display_stats, warning, below, above,
          hemi_stats, east_west_stats, pm25_pivot, country_percentages,
          top_10, map_data>>

-----------------------------------------------------------------------------
(* Bounds of the model.                                                    *)

\* The longest CSV file, in rows.
MaxRows == 3
\* The minimum-cities slider visits 1..MaxMinCities and its default.
MaxMinCities == 2
\* The largest AQI value handed to the classifier and the radius rule.
MaxAQI == 310

-----------------------------------------------------------------------------
(* Program constants.                                                      *)

ThresholdDefault == 50
ThresholdStep == 10
ThresholdMin == 0
ThresholdMax == 500
MinCitiesDefault == 5
MinCitiesMin == 1
MinCitiesMax == 50
AlphaDefault == 180
TopN == 10

NaN == <<>>
NaNText == "NaN"
None == "None"

-----------------------------------------------------------------------------
(* Generic helpers.                                                        *)

Range(s) == {s[i] : i \in DOMAIN s}

\* The permutations of a finite set, as sequences.
Perms(S) ==
    {s \in [1..Cardinality(S) -> S] : \A i, j \in DOMAIN s : i # j => s[i] # s[j]}

\* Python's string order on the labels the model uses.
LabelOrder ==
    <<"Good", "Moderate", "Russia", "UK", "USA", "Unhealthy">>

LabelRank(l) == CHOOSE i \in DOMAIN LabelOrder : LabelOrder[i] = l

\* sorted(labels): ascending by Python's string order.
SortedLabels(S) ==
    CHOOSE s \in Perms(S) :
        \A i, j \in DOMAIN s : i < j => LabelRank(s[i]) < LabelRank(s[j])

\* head(n) of a sequence.
Head_n(s, n) == IF Len(s) <= n THEN s ELSE SubSeq(s, 1, n)

-----------------------------------------------------------------------------
(* load_data, lines 84-111, and the string cleaning of line 117.           *)

\* The numbers some cell texts stand for; every other text is not a number.
NumericValue ==
    ("40" :> 40) @@ ("50" :> 50) @@ ("0" :> 0) @@
    ("10" :> 10) @@ ("-10" :> 0 - 10) @@ ("20" :> 20) @@ ("-20" :> 0 - 20)

\* pd.to_numeric(errors="coerce"): the number, or NaN when the text is none.
to_numeric(cell) ==
    IF cell \in DOMAIN NumericValue THEN <<NumericValue[cell]>> ELSE NaN

\* lines 88-90: the three numeric columns are coerced.
Coerce(file) ==
    [i \in DOMAIN file |->
        [idx |-> i,
         Country |-> file[i].Country,
         AQI_Value |-> to_numeric(file[i].AQI_Value),
         lat |-> to_numeric(file[i].lat),
         lng |-> to_numeric(file[i].lng),
         PM25_AQI_Category |-> file[i].PM25_AQI_Category]]

dropna_keeps(r) == r.AQI_Value # NaN /\ r.lat # NaN /\ r.lng # NaN

\* line 91: df.dropna(subset=numeric_cols); the kept rows keep their index.
dropna(df) == SelectSeq(df, dropna_keeps)

\* lines 94-99.
country_mapping ==
    ("United Kingdom of Great Britain and Northern Ireland" :> "UK") @@
    ("United States Of America" :> "USA") @@
    ("United States of America" :> "USA") @@
    ("Russian Federation" :> "Russia")

\* replace_country without the key "United States Of America".
replace_country_one_spelling(c) ==
    IF c \in DOMAIN country_mapping \ {"United States Of America"}
    THEN country_mapping[c] ELSE c

\* line 100: Series.replace(dict) replaces exact values and keeps the others.
replace_country(c) ==
    IF c \in DOMAIN country_mapping THEN country_mapping[c] ELSE c

\* Hemisphere_of with the equator in the south.
Hemisphere_of_strict(lat) == IF lat > 0 THEN "Northern" ELSE "Southern"

\* line 108.
Hemisphere_of(lat) == IF lat >= 0 THEN "Northern" ELSE "Southern"

\* line 109.
East_West_of(lng) == IF lng >= 0 THEN "Eastern" ELSE "Western"

\* str.strip().str.title() on the category texts of the model; NaN stays NaN.
strip_title(cat) ==
    CASE cat = "good " -> "Good"
      [] cat = " GOOD" -> "Good"
      [] cat = "Good" -> "Good"
      [] cat = "moderate" -> "Moderate"
      [] cat = "Moderate" -> "Moderate"
      [] cat = "unhealthy" -> "Unhealthy"
      [] OTHER -> cat

\* line 117: a category column that read_csv found empty in every row is a
\* float column, and its .str accessor raises AttributeError.
str_accessor_fails(file) ==
    file # <<>> /\ \A k \in DOMAIN file : file[k].PM25_AQI_Category = NaNText

\* lines 84-111.
load_data(file) ==
    LET df == dropna(Coerce(file))
    IN  [i \in DOMAIN df |->
            [idx |-> df[i].idx,
             Country |-> replace_country(df[i].Country),
             AQI_Value |-> df[i].AQI_Value[1],
             lat |-> df[i].lat[1],
             lng |-> df[i].lng[1],
             PM25_AQI_Category |-> df[i].PM25_AQI_Category,
             Hemisphere |-> Hemisphere_of(df[i].lat[1]),
             East_West |-> East_West_of(df[i].lng[1])]]

\* lines 114-117: data = load_data(), then the category column is cleaned.
clean_data(file) ==
    LET df == load_data(file)
    IN  [i \in DOMAIN df |->
            [df[i] EXCEPT !.PM25_AQI_Category = strip_title(@)]]

-----------------------------------------------------------------------------
(* Aggregation helpers: what groupby / agg / value_counts compute.         *)

\* The row positions of df whose row satisfies P.
RowsWhere(df, P(_)) == {i \in DOMAIN df : P(df[i])}

RECURSIVE SumAQI(_, _)
SumAQI(df, I) ==
    IF I = {} THEN 0
    ELSE LET i == CHOOSE j \in I : TRUE
         IN  df[i].AQI_Value + SumAQI(df, I \ {i})

RECURSIVE SumSqAQI(_, _)
SumSqAQI(df, I) ==
    IF I = {} THEN 0
    ELSE LET i == CHOOSE j \in I : TRUE
         IN  df[i].AQI_Value * df[i].AQI_Value + SumSqAQI(df, I \ {i})

MinAQI(df, I) ==
    CHOOSE v \in {df[i].AQI_Value : i \in I} :
        \A w \in {df[i].AQI_Value : i \in I} : v <= w

MaxAQI_of(df, I) ==
    CHOOSE v \in {df[i].AQI_Value : i \in I} :
        \A w \in {df[i].AQI_Value : i \in I} : v >= w

\* Series.mean(): the exact fraction num/den, NaN for no rows.
mean(df, I) ==
    IF I = {} THEN NaN
    ELSE <<[num |-> SumAQI(df, I), den |-> Cardinality(I)]>>

\* Series.std() (ddof = 1): the sample variance num/den whose root it is,
\* NaN for fewer than two rows.
std(df, I) ==
    LET n == Cardinality(I)
    IN  IF n < 2 THEN NaN
        ELSE <<[num |-> n * SumSqAQI(df, I) - SumAQI(df, I) * SumAQI(df, I),
                den |-> n * (n - 1)]>>

\* agg(["count", "mean", "min", "max"]) of a non-empty group.
agg4(df, I) ==
    [count |-> Cardinality(I), mean |-> mean(df, I)[1],
     min |-> MinAQI(df, I), max |-> MaxAQI_of(df, I)]

\* agg(["count", "mean", "std", "min", "max"]) with the columns renamed
\* (lines 267 and 285).
agg5(df, I) ==
    [Cities |-> Cardinality(I), Average |-> mean(df, I)[1],
     Std_Dev |-> std(df, I),
     Minimum |-> MinAQI(df, I), Maximum |-> MaxAQI_of(df, I)]

\* The group keys of a column: groupby and value_counts leave NaN out.
Keys(df, Col(_)) == {Col(df[i]) : i \in DOMAIN df} \ {NaNText}

CountryCol(r) == r.Country
CategoryCol(r) == r.PM25_AQI_Category
HemisphereCol(r) == r.Hemisphere
EastWestCol(r) == r.East_West

\* df["Country"].value_counts(): each country that occurs, with its count.
value_counts(df) ==
    [c \in Keys(df, CountryCol) |->
        Cardinality(RowsWhere(df, LAMBDA r : r.Country = c))]

\* Boolean indexing of a Series by its values, s[s >= n].
at_least(s, n) == [c \in {k \in DOMAIN s : s[k] >= n} |-> s[c]]

-----------------------------------------------------------------------------
(* The tables of the script.  A table is a function from its index labels  *)
(* to its rows; the row order sort_values gives a table is not part of the *)
(* state except for top_10, the one table a statement about order reads.   *)

\* lines 126-129: data.groupby("Country")["AQI Value"].agg(...).
groupby_country(df) ==
    [c \in Keys(df, CountryCol) |->
        agg4(df, RowsWhere(df, LAMBDA r : r.Country = c))]

\* country_stats_of that keeps the groups with count > min_cities.
country_stats_of_strict(df, n) ==
    LET g == groupby_country(df)
    IN  [c \in {k \in DOMAIN g : g[k].count > n} |-> g[c]]

\* lines 130-132: the groups with count >= min_cities (then sorted by mean).
country_stats_of(df, n) ==
    LET g == groupby_country(df)
    IN  [c \in {k \in DOMAIN g : g[k].count >= n} |-> g[c]]

\* lines 151-154.
calculate_hemisphere_stats(df) ==
    <<mean(df, RowsWhere(df, LAMBDA r : r.Hemisphere = "Northern")),
      mean(df, RowsWhere(df, LAMBDA r : r.Hemisphere = "Southern"))>>

\* lines 160-164: the categories that occur, NaN left out.
pm25_categories_of(df) == Keys(df, CategoryCol)

\* below_of that counts the cities on the threshold too.
below_of_inclusive(df, threshold, n) ==
    at_least(value_counts(SelectSeq(df, LAMBDA r : r.AQI_Value <= threshold)), n)

\* lines 223 and 226.
below_of(df, threshold, n) ==
    at_least(value_counts(SelectSeq(df, LAMBDA r : r.AQI_Value < threshold)), n)

\* lines 238-239.
above_of(df, threshold, n) ==
    at_least(value_counts(SelectSeq(df, LAMBDA r : r.AQI_Value > threshold)), n)

\* hemi_stats_of over the rows that have a country only.
hemi_stats_of_known_countries(df) ==
    [h \in Keys(SelectSeq(df, LAMBDA r : r.Country # NaNText), HemisphereCol) |->
        agg5(df, RowsWhere(df, LAMBDA r : r.Hemisphere = h
                                          /\ r.Country # NaNText))]

\* lines 264-267.
hemi_stats_of(df) ==
    [h \in Keys(df, HemisphereCol) |->
        agg5(df, RowsWhere(df, LAMBDA r : r.Hemisphere = h))]

\* lines 282-285.
east_west_stats_of(df) ==
    [h \in Keys(df, EastWestCol) |->
        agg5(df, RowsWhere(df, LAMBDA r : r.East_West = h))]

\* lines 307-314: pd.pivot_table(index="Country", columns="PM2.5 AQI
\* Category", values="AQI Value", aggfunc="count", fill_value=0).  A row
\* whose Country or whose category is NaN is in no cell of the table.
pivot_table(df) ==
    LET cells == SelectSeq(df, LAMBDA r : r.Country # NaNText
                                          /\ r.PM25_AQI_Category # NaNText)
    IN  [c \in Keys(cells, CountryCol) |->
            [k \in Keys(cells, CategoryCol) |->
                Cardinality(RowsWhere(cells,
                    LAMBDA r : r.Country = c /\ r.PM25_AQI_Category = k))]]

RECURSIVE SumRow(_, _)
SumRow(row, K) ==
    IF K = {} THEN 0
    ELSE LET k == CHOOSE x \in K : TRUE
         IN  row[k] + SumRow(row, K \ {k})

\* pm25_pivot.sum(axis=1) of one row.
row_sum(row) == SumRow(row, DOMAIN row)

\* lines 317-321: the rows whose sum is >= min_cities (then sorted by Total,
\* a column that is added and dropped again).
pm25_pivot_of(df, n) ==
    LET p == pivot_table(df)
    IN  [c \in {k \in DOMAIN p : row_sum(p[k]) >= n} |-> p[c]]

-----------------------------------------------------------------------------
(* Tab 1: the country search, lines 186-198.                               *)

\* The characters of the index labels of country_stats.
Chars ==
    ("Russia" :> <<"R", "u", "s", "s", "i", "a">>) @@
    ("USA" :> <<"U", "S", "A">>) @@
    ("UK" :> <<"U", "K">>)

\* re.IGNORECASE on the letters of the model.
Lower(ch) ==
    CASE ch = "R" -> "r"
      [] ch = "U" -> "u"
      [] ch = "S" -> "s"
      [] ch = "A" -> "a"
      [] ch = "K" -> "k"
      [] OTHER -> ch

\* line 190: a Country column that read_csv found empty in every row is a
\* float column, the index of country_stats is then a float index, and its
\* .str accessor raises AttributeError.
index_str_fails(file) ==
    file # <<>> /\ \A k \in DOMAIN file : file[k].Country = NaNText

\* str.contains(pat, case=False) leaves regex=True, so pat is compiled as a
\* regular expression: re.compile raises re.error for a "(" that is never
\* closed.
re_compile_fails(pat) ==
    \E i \in DOMAIN pat :
        pat[i] = "(" /\ \A j \in DOMAIN pat : j > i => pat[j] # ")"

\* re.search of a compiled pattern made of letters and ".": "." matches any
\* character, a letter matches itself in either case.
str_contains(name, pat) ==
    \E k \in 0..(Len(name) - Len(pat)) :
        \A j \in DOMAIN pat :
            pat[j] = "." \/ Lower(pat[j]) = Lower(name[k + j])

\* lines 189-191.
filtered_stats_of(stats, text) ==
    [c \in {k \in DOMAIN stats : str_contains(Chars[k], text)} |-> stats[c]]

-----------------------------------------------------------------------------
(* Tab 4: the category percentages, lines 359-376.                         *)

\* lines 359-368.  category_counts / country_totals is NaN for a country
\* with no city of the category, and dropna() removes it.
country_percentages_of(df, category, stats, n) ==
    LET valid_countries == {c \in DOMAIN stats : stats[c].count >= n}
        country_totals == value_counts(df)
        category_counts ==
            value_counts(SelectSeq(df,
                LAMBDA r : r.PM25_AQI_Category = category))
        labels == (DOMAIN category_counts \cap DOMAIN country_totals)
                      \cap valid_countries
    IN  [c \in labels |->
            [num |-> category_counts[c] * 100, den |-> country_totals[c]]]

\* p >= q for two fractions with positive denominators.
FracGeq(p, q) == p.num * q.den >= q.num * p.den

\* line 369: sort_values(ascending=False).  The default kind is quicksort,
\* which pandas documents as not stable: every descending order of the
\* labels is a possible result, whatever the order before the sort.
sort_values_descending(s) ==
    {o \in Perms(DOMAIN s) :
        \A i, j \in DOMAIN o : i < j => FracGeq(s[o[i]], s[o[j]])}

\* round(2) of the percentage num/den, in hundredths (half to even).
round2(p) ==
    LET a == p.num * 100
        q == a \div p.den
        r == a % p.den
    IN  IF 2 * r < p.den THEN q
        ELSE IF 2 * r > p.den THEN q + 1
        ELSE IF q % 2 = 0 THEN q ELSE q + 1

\* lines 374-376: head(10), reset_index, the two columns, round(2).
top_10_of(s, order) ==
    LET h == Head_n(order, TopN)
    IN  [i \in DOMAIN h |-> [Country |-> h[i], Percentage |-> round2(s[h[i]])]]

-----------------------------------------------------------------------------
(* The classifier and tab 5: the map, lines 135-147 and 391-412.           *)

\* get_color with the first comparison strict.
get_color_strict(aqi, alpha) ==
    IF aqi < 50 THEN <<0, 200, 0, alpha>>
    ELSE IF aqi <= 100 THEN <<255, 255, 0, alpha>>
    ELSE IF aqi <= 150 THEN <<255, 126, 0, alpha>>
    ELSE IF aqi <= 200 THEN <<255, 0, 0, alpha>>
    ELSE IF aqi <= 300 THEN <<153, 0, 76, alpha>>
    ELSE <<126, 0, 35, alpha>>

\* lines 135-147.
get_color(aqi, alpha) ==
    IF aqi <= 50 THEN <<0, 200, 0, alpha>>
    ELSE IF aqi <= 100 THEN <<255, 255, 0, alpha>>
    ELSE IF aqi <= 150 THEN <<255, 126, 0, alpha>>
    ELSE IF aqi <= 200 THEN <<255, 0, 0, alpha>>
    ELSE IF aqi <= 300 THEN <<153, 0, 76, alpha>>
    ELSE <<126, 0, 35, alpha>>

\* radius_of with the breakpoints of get_color, <= 100 and <= 200.
radius_of_inclusive(aqi) ==
    IF aqi <= 100 THEN 2000
    ELSE IF aqi <= 200 THEN 3000
    ELSE 4000

\* lines 408-412.
radius_of(aqi) ==
    IF aqi < 100 THEN 2000
    ELSE IF aqi < 200 THEN 3000
    ELSE 4000

\* lines 391-412: Series.apply(get_color) calls it with the default alpha.
map_data_of(df) ==
    [i \in DOMAIN df |->
        [AQI_Value |-> df[i].AQI_Value,
         color |-> get_color(df[i].AQI_Value, AlphaDefault),
         radius |-> radius_of(df[i].AQI_Value)]]

-----------------------------------------------------------------------------
(* The inputs: the CSV file and the values the widgets can take.  Three    *)
(* families of files are checked, each a product of the cells that one     *)
(* group of tables reads.                                                  *)

\* Rows that differ in the spelling of the country and in the AQI value.
CountryRows ==
    {[Country |-> c, AQI_Value |-> a, lat |-> "10", lng |-> "20",
      PM25_AQI_Category |-> IF a = "40" THEN "good " ELSE "moderate"] :
        c \in {"Russia", "Russian Federation"}, a \in {"40", "50"}}
    \cup
    {[Country |-> "United States Of America", AQI_Value |-> "40",
      lat |-> "10", lng |-> "20", PM25_AQI_Category |-> "Good"],
     [Country |-> "United States of America", AQI_Value |-> "50",
      lat |-> "10", lng |-> "20", PM25_AQI_Category |-> "Moderate"]}

\* Rows that differ in the country and in the category, which may be missing.
CategoryRows ==
    {[Country |-> c, AQI_Value |-> "40", lat |-> "10", lng |-> "20",
      PM25_AQI_Category |-> k] :
        c \in {"Russia", "USA"}, k \in {"good ", NaNText}}
    \cup
    {[Country |-> "Russia", AQI_Value |-> "50",
      lat |-> "10", lng |-> "20", PM25_AQI_Category |-> "Moderate"],
     [Country |-> "United Kingdom of Great Britain and Northern Ireland",
      AQI_Value |-> "50", lat |-> "10", lng |-> "20",
      PM25_AQI_Category |-> "moderate"]}

\* Rows that differ in their coordinates and in the cell that fails to
\* coerce.
CoordRows ==
    {[Country |-> "USA", AQI_Value |-> "40",
      lat |-> "10", lng |-> "20", PM25_AQI_Category |-> "Good"],
     [Country |-> "USA", AQI_Value |-> "50",
      lat |-> "-10", lng |-> "-20", PM25_AQI_Category |-> "Moderate"],
     [Country |-> NaNText, AQI_Value |-> "50",
      lat |-> "0", lng |-> "0", PM25_AQI_Category |-> "Good"],
     [Country |-> "USA", AQI_Value |-> "abc",
      lat |-> "10", lng |-> "20", PM25_AQI_Category |-> "Good"],
     [Country |-> "USA", AQI_Value |-> "40",
      lat |-> NaNText, lng |-> "-20", PM25_AQI_Category |-> "Good"],
     [Country |-> "Russia", AQI_Value |-> "50",
      lat |-> "10", lng |-> "east", PM25_AQI_Category |-> "Good"]}

\* The files of at most MaxRows rows taken from a set of rows.
Files(rows) == UNION {[1..n -> rows] : n \in 0..MaxRows}

\* st.sidebar.slider("AQI Threshold Value", 0, 500, 50, 10), line 121: the
\* default and one step below it.
AqiThresholdChoices ==
    {t \in ThresholdMin..ThresholdMax :
        t = ThresholdDefault \/ t = ThresholdDefault - ThresholdStep}

\* st.sidebar.slider("Minimum Cities per Country", 1, 50, 5), line 123.
MinCitiesChoices ==
    {n \in MinCitiesMin..MinCitiesMax : n <= MaxMinCities \/ n = MinCitiesDefault}

\* st.text_input("Search for a country:", ""), line 186: texts of letters,
\* "." and "(".
SearchTexts == {<<>>, <<"s", "s">>, <<"U", ".", "A">>, <<"(">>}

EmptyTable == [c \in {} |-> 0]

\* st.selectbox shows sorted(pm25_categories_list) and starts on its first
\* option; it returns None when there is none (lines 354-357).
selectbox_default(options) ==
    IF options = {} THEN None ELSE SortedLabels(options)[1]

-----------------------------------------------------------------------------
(* One run of the script with the given widget values.  Each intermediate  *)
(* value is bound once, by a quantifier over the set that holds only it.   *)

Run(threshold, n, text, category) ==
    \E df \in {clean_data(csv)} :
    \E stats \in {country_stats_of(df, n)} :
    \E avgs \in {calculate_hemisphere_stats(df)} :
        /\ pc' = "ready"
        /\ csv' = csv
        /\ data' = df
        /\ aqi_threshold' = threshold
        /\ min_cities' = n
        /\ search_country' = text
        /\ selected_category' = category
        /\ country_stats' = stats
        /\ north_avg' = avgs[1]
        /\ south_avg' = avgs[2]
        /\ pm25_categories_list' = pm25_categories_of(df)
        /\ IF text # <<>> /\ (index_str_fails(csv) \/ re_compile_fails(text))
           THEN \* line 190 raises: the run ends there, tabs 2 to 5 are not run
                /\ raised' = TRUE
                /\ display_stats' = EmptyTable
                /\ warning' = FALSE
                /\ below' = EmptyTable
                /\ above' = EmptyTable
                /\ hemi_stats' = EmptyTable
                /\ east_west_stats' = EmptyTable
                /\ pm25_pivot' = EmptyTable
                /\ country_percentages' = EmptyTable
                /\ top_10' = <<>>
                /\ map_data' = <<>>
           ELSE \E filtered_stats \in {filtered_stats_of(stats, text)} :
                \E percentages \in
                        {country_percentages_of(df, category, stats, n)} :
                /\ raised' = FALSE
                /\ display_stats' =
                      IF text # <<>> /\ DOMAIN filtered_stats # {}
                      THEN filtered_stats ELSE stats
                /\ warning' = (text # <<>> /\ DOMAIN filtered_stats = {})
                /\ below' = below_of(df, threshold, n)
                /\ above' = above_of(df, threshold, n)
                /\ hemi_stats' = hemi_stats_of(df)
                /\ east_west_stats' = east_west_stats_of(df)
                /\ pm25_pivot' = pm25_pivot_of(df, n)
                /\ country_percentages' = percentages
                /\ \E order \in sort_values_descending(percentages) :
                      top_10' = top_10_of(percentages, order)
                /\ map_data' = map_data_of(df)

\* Nothing is computed yet and every widget is at its default.
NotRun ==
    /\ aqi_threshold = ThresholdDefault
    /\ min_cities = MinCitiesDefault
    /\ search_country = <<>>
    /\ selected_category = None
    /\ country_stats = EmptyTable
    /\ north_avg = NaN
    /\ south_avg = NaN
    /\ pm25_categories_list = {}
    /\ raised = FALSE
    /\ display_stats = EmptyTable
    /\ warning = FALSE
    /\ below = EmptyTable
    /\ above = EmptyTable
    /\ hemi_stats = EmptyTable
    /\ east_west_stats = EmptyTable
    /\ pm25_pivot = EmptyTable
    /\ country_percentages = EmptyTable
    /\ top_10 = <<>>
    /\ map_data = <<>>

\* Before the first run: some CSV file is on disk, nothing is computed.
InitWith(rows) ==
    /\ pc = "start"
    /\ csv \in Files(rows)
    /\ data = <<>>
    /\ NotRun

\* The first run: every widget returns its default.  When line 117 raises,
\* the script ends with data loaded and no widget on the page.
Start ==
    /\ pc = "start"
    /\ IF str_accessor_fails(csv)
       THEN /\ pc' = "failed"
            /\ data' = load_data(csv)
            /\ UNCHANGED <<csv, aqi_threshold, min_cities, search_country,
                           selected_category, country_stats, north_avg,
                           south_avg, pm25_categories_list, raised,
                           display_stats, warning, below, above, hemi_stats,
                           east_west_stats, pm25_pivot, country_percentages,
                           top_10, map_data>>
       ELSE Run(ThresholdDefault, MinCitiesDefault, <<>>,
                selectbox_default(pm25_categories_of(clean_data(csv))))

\* The user moves the AQI threshold slider to another value: the script runs
\* again.
SetAqiThreshold ==
    /\ pc = "ready"
    /\ \E t \in AqiThresholdChoices \ {aqi_threshold} :
          Run(t, min_cities, search_country, selected_category)

\* The user moves the minimum-cities slider to another value.
SetMinCities ==
    /\ pc = "ready"
    /\ \E n \in MinCitiesChoices \ {min_cities} :
          Run(aqi_threshold, n, search_country, selected_category)

\* The user types another search text.
SetSearchCountry ==
    /\ pc = "ready"
    /\ \E text \in SearchTexts \ {search_country} :
          Run(aqi_threshold, min_cities, text, selected_category)

\* The user picks another category in the select box, which is on the page only
\* when the last run reached tab 4.
SelectCategory ==
    /\ pc = "ready"
    /\ ~raised
    /\ \E c \in pm25_categories_list \ {selected_category} :
          Run(aqi_threshold, min_cities, search_country, c)

Next ==
    \/ Start
    \/ SetAqiThreshold
    \/ SetMinCities
    \/ SetSearchCountry
    \/ SelectCategory

InitCountry == InitWith(CountryRows)
InitCategory == InitWith(CategoryRows)
InitCoords == InitWith(CoordRows)

SpecCountry == InitCountry /\ [][Next]_vars
SpecCategory == InitCategory /\ [][Next]_vars
SpecCoords == InitCoords /\ [][Next]_vars

-----------------------------------------------------------------------------
(* The classifier and the radius rule on their own: a two-row frame whose  *)
(* AQI values range over 0..MaxAQI, and the step that computes the map     *)
(* columns of lines 405-412 for it.                                        *)

InitMap ==
    /\ pc = "start"
    /\ csv = <<>>
    /\ \E a, b \in 0..MaxAQI :
          data = <<[AQI_Value |-> a], [AQI_Value |-> b]>>
    /\ NotRun

PlotMap ==
    /\ pc = "start"
    /\ pc' = "ready"
    /\ map_data' = map_data_of(data)
    /\ UNCHANGED <<csv, data, aqi_threshold, min_cities, search_country,
                   selected_category, country_stats, north_avg, south_avg,
                   pm25_categories_list, raised, display_stats, warning,
                   below, above, hemi_stats, east_west_stats, pm25_pivot,
                   country_percentages, top_10>>

NextMap == PlotMap

SpecMap == InitMap /\ [][NextMap]_vars

-----------------------------------------------------------------------------
(* What the statements below are written in: the severity bands of the     *)
(* specification, and counts taken straight from the rows.                 *)

Bands ==
    {"Good", "Moderate", "Unhealthy-for-Sensitive", "Unhealthy",
     "Very-Unhealthy", "Hazardous"}

\* [0,50], (50,100], (100,150], (150,200], (200,300], (300,inf).
InBand(aqi, band) ==
    CASE band = "Good" -> 0 <= aqi /\ aqi <= 50
      [] band = "Moderate" -> 50 < aqi /\ aqi <= 100
      [] band = "Unhealthy-for-Sensitive" -> 100 < aqi /\ aqi <= 150
      [] band = "Unhealthy" -> 150 < aqi /\ aqi <= 200
      [] band = "Very-Unhealthy" -> 200 < aqi /\ aqi <= 300
      [] band = "Hazardous" -> 300 < aqi

\* The colour of each band: green, yellow, orange, red, purple, maroon.
BandColor(band) ==
    CASE band = "Good" -> <<0, 200, 0, 180>>
      [] band = "Moderate" -> <<255, 255, 0, 180>>
      [] band = "Unhealthy-for-Sensitive" -> <<255, 126, 0, 180>>
      [] band = "Unhealthy" -> <<255, 0, 0, 180>>
      [] band = "Very-Unhealthy" -> <<153, 0, 76, 180>>
      [] band = "Hazardous" -> <<126, 0, 35, 180>>

SameBand(a, b) == \E band \in Bands : InBand(a, band) /\ InBand(b, band)

\* The map row of AQI value a has the colour of band.
Classified(a, band) ==
    \A i \in DOMAIN map_data :
        map_data[i].AQI_Value = a => map_data[i].color = BandColor(band)

\* C1: get_color is total and puts every AQI value from 0 up in exactly one
\* severity band, with the breakpoints [0,50] Good, (50,100] Moderate,
\* (100,150] Unhealthy-for-Sensitive, (150,200] Unhealthy, (200,300]
\* Very-Unhealthy, (300,inf) Hazardous: a plotted row has the colour of a
\* band exactly when its AQI value lies in the band's interval, so 50 is
\* Good, 51 Moderate, 150 Unhealthy-for-Sensitive, 151 Unhealthy, 300
\* Very-Unhealthy and 301 Hazardous.
C1_ClassifierBands ==
    /\ \A i \in DOMAIN map_data :
          /\ \A band \in Bands :
                (map_data[i].color = BandColor(band))
                    <=> InBand(map_data[i].AQI_Value, band)
          /\ Cardinality({band \in Bands :
                            map_data[i].color = BandColor(band)}) = 1
    /\ Classified(50, "Good")
    /\ Classified(51, "Moderate")
    /\ Classified(150, "Unhealthy-for-Sensitive")
    /\ Classified(151, "Unhealthy")
    /\ Classified(300, "Very-Unhealthy")
    /\ Classified(301, "Hazardous")

\* C1's case: the two breakpoint values 300 and 301 have been classified, in
\* different bands.
C1_Witness ==
    /\ Len(map_data) = 2
    /\ map_data[1].AQI_Value = 300
    /\ map_data[1].color = BandColor("Very-Unhealthy")
    /\ map_data[2].AQI_Value = 301
    /\ map_data[2].color = BandColor("Hazardous")

\* C9 as stated: two AQI values of the same severity band get the same
\* colour and the same marker radius.
C9_SameBandSameColorAndRadius ==
    \A i, j \in DOMAIN map_data :
        SameBand(map_data[i].AQI_Value, map_data[j].AQI_Value)
            => /\ map_data[i].color = map_data[j].color
               /\ map_data[i].radius = map_data[j].radius

\* C9, amended: the radius follows the tiers AQI < 100 small, 100 <= AQI <
\* 200 medium, AQI >= 200 large; two AQI values of the same severity band
\* get the same colour, and they get the same radius unless exactly one of
\* them is 100 or 200, the top value of Moderate and of Unhealthy.
C9_ColorByBandRadiusByTier ==
    /\ \A i \in DOMAIN map_data :
          LET a == map_data[i].AQI_Value
          IN  /\ (map_data[i].radius = 2000) <=> (a < 100)
              /\ (map_data[i].radius = 3000) <=> (100 <= a /\ a < 200)
              /\ (map_data[i].radius = 4000) <=> (a >= 200)
    /\ \A i, j \in DOMAIN map_data :
          LET a == map_data[i].AQI_Value
              b == map_data[j].AQI_Value
          IN  SameBand(a, b)
                => /\ map_data[i].color = map_data[j].color
                   /\ (map_data[i].radius # map_data[j].radius)
                        <=> ((a \in {100, 200}) # (b \in {100, 200}))

\* C9's case: two values of the band Moderate, 99 and 100, have been plotted
\* with one colour and two radii.
C9_Witness ==
    /\ Len(map_data) = 2
    /\ map_data[1].AQI_Value = 99
    /\ map_data[2].AQI_Value = 100
    /\ map_data[1].color = map_data[2].color
    /\ map_data[1].radius = 2000
    /\ map_data[2].radius = 3000

-----------------------------------------------------------------------------
(* Counts taken straight from the rows of the CSV file and of data.        *)

\* The cell texts of the model that are no number.
CoercionFails(cell) == cell \in {"abc", "east", NaNText}

\* The rows of the file in which all three numeric cells coerce.
CleanRows ==
    {k \in DOMAIN csv :
        /\ ~CoercionFails(csv[k].AQI_Value)
        /\ ~CoercionFails(csv[k].lat)
        /\ ~CoercionFails(csv[k].lng)}

\* The countries of the cleaned dataset.
DataCountries == {data[i].Country : i \in DOMAIN data} \ {NaNText}

\* The cities (rows) of a country in the cleaned dataset.
Cities(c) == {i \in DOMAIN data : data[i].Country = c}

CityCount(c) == Cardinality(Cities(c))

\* The sum of the AQI values of the rows I of data, row by row.
RECURSIVE AqiTotal(_, _)
AqiTotal(I, k) ==
    IF k = 0 THEN 0
    ELSE (IF k \in I THEN data[k].AQI_Value ELSE 0) + AqiTotal(I, k - 1)

RECURSIVE AqiSquares(_, _)
AqiSquares(I, k) ==
    IF k = 0 THEN 0
    ELSE (IF k \in I THEN data[k].AQI_Value * data[k].AQI_Value ELSE 0)
             + AqiSquares(I, k - 1)

\* row is the count, mean, standard deviation, min and max of the rows I.
SummaryOf(row, I) ==
    LET n == Cardinality(I)
        total == AqiTotal(I, Len(data))
    IN  /\ row.Cities = n
        /\ row.Average = [num |-> total, den |-> n]
        /\ \E i \in I : row.Minimum = data[i].AQI_Value
        /\ \A i \in I : row.Minimum <= data[i].AQI_Value
        /\ \E i \in I : row.Maximum = data[i].AQI_Value
        /\ \A i \in I : row.Maximum >= data[i].AQI_Value
        /\ row.Std_Dev =
              IF n < 2 THEN NaN
              ELSE <<[num |-> n * AqiSquares(I, Len(data)) - total * total,
                      den |-> n * (n - 1)]>>

\* table is the summary of each group of the full cleaned dataset.
SummaryTable(table, groups) ==
    /\ DOMAIN table = {g \in DOMAIN groups : groups[g] # {}}
    /\ \A g \in DOMAIN table : SummaryOf(table[g], groups[g])

AverageOf(avg, I) ==
    avg = IF I = {} THEN NaN
          ELSE <<[num |-> AqiTotal(I, Len(data)), den |-> Cardinality(I)]>>

NorthRows == {i \in DOMAIN data : data[i].lat >= 0}
SouthRows == {i \in DOMAIN data : data[i].lat < 0}
EastRows == {i \in DOMAIN data : data[i].lng >= 0}
WestRows == {i \in DOMAIN data : data[i].lng < 0}

-----------------------------------------------------------------------------
\* C2: after load_data and after any sequence of widget changes, the cleaned
\* dataset holds exactly the rows of the file whose AQI Value, lat and lng
\* all coerce (a row is dropped iff one of the three fails), in file order;
\* every record has a number in all three; Hemisphere is "Northern" iff
\* lat >= 0 and else "Southern"; East_West is "Eastern" iff lng >= 0 and else
\* "Western".
C2_CleanRecords ==
    pc = "ready" =>
        /\ {data[i].idx : i \in DOMAIN data} = CleanRows
        /\ \A i, j \in DOMAIN data : i < j => data[i].idx < data[j].idx
        /\ \A i \in DOMAIN data :
              /\ data[i].AQI_Value \in Int
              /\ data[i].lat \in Int
              /\ data[i].lng \in Int
              /\ data[i].Hemisphere \in {"Northern", "Southern"}
              /\ (data[i].Hemisphere = "Northern") <=> (data[i].lat >= 0)
              /\ data[i].East_West \in {"Eastern", "Western"}
              /\ (data[i].East_West = "Eastern") <=> (data[i].lng >= 0)

\* C2's case: widgets have been changed, a row of the file was dropped, and
\* the dataset holds a record on the equator (lat = 0, lng = 0) and one in
\* the south-west.
C2_Witness ==
    /\ pc = "ready"
    /\ min_cities # MinCitiesDefault
    /\ aqi_threshold # ThresholdDefault
    /\ search_country # <<>>
    /\ Len(data) < Len(csv)
    /\ \E i \in DOMAIN data :
          /\ data[i].lat = 0 /\ data[i].Hemisphere = "Northern"
          /\ data[i].lng = 0 /\ data[i].East_West = "Eastern"
    /\ \E i \in DOMAIN data :
          /\ data[i].lat < 0 /\ data[i].Hemisphere = "Southern"
          /\ data[i].lng < 0 /\ data[i].East_West = "Western"

\* C10, the state part: the north and south averages and, whenever the run
\* reaches tab 3, the Hemisphere and East/West summaries are the count, mean,
\* standard deviation, min and max over all records of the cleaned dataset,
\* whatever the widget values.
C10_OverFullDataset ==
    pc = "ready" =>
        /\ AverageOf(north_avg, NorthRows)
        /\ AverageOf(south_avg, SouthRows)
        /\ ~raised =>
              /\ SummaryTable(hemi_stats,
                    [g \in {"Northern", "Southern"} |->
                        IF g = "Northern" THEN NorthRows ELSE SouthRows])
              /\ SummaryTable(east_west_stats,
                    [g \in {"Eastern", "Western"} |->
                        IF g = "Eastern" THEN EastRows ELSE WestRows])

\* C10, the step part: a widget change leaves the cleaned records, the two
\* averages and (between two runs that reach tab 3) both summaries as they
\* were.
C10_WidgetsLeaveSummaries ==
    pc = "ready" =>
        /\ data' = data
        /\ north_avg' = north_avg
        /\ south_avg' = south_avg
        /\ (~raised /\ ~raised') =>
              /\ hemi_stats' = hemi_stats
              /\ east_west_stats' = east_west_stats

\* C10: the Hemisphere and East/West summaries and the north/south averages
\* are always computed over the full cleaned dataset, and changing
\* min_cities, aqi_threshold, search_country or selected_category in any
\* order leaves them and the cleaned records unchanged.
C10_HemisphereSummaries ==
    [](C10_OverFullDataset) /\ [][C10_WidgetsLeaveSummaries]_vars

\* C10's case: both sliders are off their defaults, the minimum-cities
\* threshold has removed a country from the country summary, and the
\* Hemisphere summary still has both hemispheres, the northern one with two
\* cities or more.
C10_Witness ==
    /\ pc = "ready"
    /\ ~raised
    /\ min_cities # MinCitiesDefault
    /\ aqi_threshold # ThresholdDefault
    /\ DataCountries \ DOMAIN country_stats # {}
    /\ DOMAIN hemi_stats = {"Northern", "Southern"}
    /\ hemi_stats["Northern"].Cities >= 2
    /\ DOMAIN east_west_stats = {"Eastern", "Western"}

-----------------------------------------------------------------------------
\* C3, the state part: the country summary holds exactly the countries of the
\* cleaned dataset whose city count is >= min_cities, each with its count.
C3_ExactlyTheLargeCountries ==
    pc = "ready" =>
        /\ DOMAIN country_stats =
              {c \in DataCountries : CityCount(c) >= min_cities}
        /\ \A c \in DOMAIN country_stats :
              /\ country_stats[c].count = CityCount(c)
              /\ country_stats[c].count >= min_cities

\* C3, the step part: a run with a larger (smaller) min_cities has no more
\* (no fewer) rows in the country summary than the run before it.
C3_Monotonic ==
    pc = "ready" =>
        /\ min_cities' >= min_cities =>
              Cardinality(DOMAIN country_stats')
                  <= Cardinality(DOMAIN country_stats)
        /\ min_cities' <= min_cities =>
              Cardinality(DOMAIN country_stats')
                  >= Cardinality(DOMAIN country_stats)

\* C3: for any min_cities threshold T the country summary contains exactly
\* the countries whose city count is >= T, every row has count >= T, and the
\* number of rows does not increase when T increases.
C3_CountrySummaryFilter ==
    [](C3_ExactlyTheLargeCountries) /\ [][C3_Monotonic]_vars

\* C3's case: the threshold is 2, a country with exactly 2 cities is in the
\* summary and a country with fewer cities is left out.
C3_Witness ==
    /\ pc = "ready"
    /\ min_cities = 2
    /\ \E c \in DOMAIN country_stats : country_stats[c].count = 2
    /\ DataCountries \ DOMAIN country_stats # {}

-----------------------------------------------------------------------------
\* The text occurs in the name as it is written, letter case aside.
LiteralContains(name, text) ==
    \E k \in 0..(Len(name) - Len(text)) :
        \A j \in DOMAIN text : Lower(text[j]) = Lower(name[k + j])

\* The rows of the country summary whose name contains the search text.
Matching ==
    {c \in DOMAIN country_stats : LiteralContains(Chars[c], search_country)}

\* C5: for a non-empty search text the displayed summary is the set of rows
\* whose country name contains the text case-insensitively; with no match the
\* full summary is displayed and the warning is raised, and the warning is
\* raised in that case only; no search text produces an exception, or an
\* empty table when the country summary is non-empty.
C5_SearchContract ==
    pc = "ready" =>
        /\ ~raised
        /\ search_country = <<>> =>
              /\ display_stats = country_stats
              /\ ~warning
        /\ (search_country # <<>> /\ Matching # {}) =>
              /\ display_stats = [c \in Matching |-> country_stats[c]]
              /\ ~warning
        /\ (search_country # <<>> /\ Matching = {}) =>
              /\ display_stats = country_stats
              /\ warning
        /\ DOMAIN country_stats # {} => DOMAIN display_stats # {}

-----------------------------------------------------------------------------
BelowCities(c) == {i \in Cities(c) : data[i].AQI_Value < aqi_threshold}
AboveCities(c) == {i \in Cities(c) : data[i].AQI_Value > aqi_threshold}
EqualCities(c) == {i \in Cities(c) : data[i].AQI_Value = aqi_threshold}

\* C6: for every country the below (above) count is the number of its cities
\* with AQI Value strictly less (greater) than aqi_threshold; a country
\* appears in below (above) iff that count is >= min_cities; a city whose AQI
\* equals the threshold is counted in neither.
C6_ThresholdCounts ==
    (pc = "ready" /\ ~raised) =>
        /\ DOMAIN below =
              {c \in DataCountries : Cardinality(BelowCities(c)) >= min_cities}
        /\ \A c \in DOMAIN below : below[c] = Cardinality(BelowCities(c))
        /\ DOMAIN above =
              {c \in DataCountries : Cardinality(AboveCities(c)) >= min_cities}
        /\ \A c \in DOMAIN above : above[c] = Cardinality(AboveCities(c))
        /\ \A c \in DataCountries :
              (IF c \in DOMAIN below THEN below[c] ELSE 0)
                  + (IF c \in DOMAIN above THEN above[c] ELSE 0)
                  <= CityCount(c) - Cardinality(EqualCities(c))

\* C6's case: a country has a city below the threshold and a city on the
\* threshold; it is in below with the one count and not in above.
C6_Witness ==
    /\ pc = "ready"
    /\ ~raised
    /\ \E c \in DOMAIN below :
          /\ EqualCities(c) # {}
          /\ below[c] = 1
          /\ CityCount(c) = 2
          /\ c \notin DOMAIN above

-----------------------------------------------------------------------------
\* The canonical name of a country name of the file.
Canon(name) ==
    CASE name = "Russian Federation" -> "Russia"
      [] name = "United States Of America" -> "USA"
      [] name = "United States of America" -> "USA"
      [] name = "United Kingdom of Great Britain and Northern Ireland" -> "UK"
      [] OTHER -> name

AliasNames ==
    {"Russian Federation", "United States Of America",
     "United States of America",
     "United Kingdom of Great Britain and Northern Ireland"}

\* The name that row i of data has in the file.
FileName(i) == csv[data[i].idx].Country

\* The rows of data whose name in the file is c or an alias of c.
CanonCities(c) == {i \in DOMAIN data : Canon(FileName(i)) = c}

\* C8: the canonical names are in place before any grouping: every record
\* carries the canonical form of its name in the file (other names
\* unchanged), so no alias is a group, and the rows named "Russian
\* Federation" are counted with the rows named "Russia" (both USA spellings
\* with "USA") in the country summary, the threshold counts, the category
\* pivot and the category percentages.
C8_CanonicalGroups ==
    pc = "ready" =>
        /\ \A i \in DOMAIN data : data[i].Country = Canon(FileName(i))
        /\ DOMAIN country_stats \cap AliasNames = {}
        /\ \A c \in DOMAIN country_stats :
              country_stats[c].count = Cardinality(CanonCities(c))
        /\ ~raised =>
              /\ (DOMAIN below \cup DOMAIN above \cup DOMAIN pm25_pivot
                      \cup DOMAIN country_percentages) \cap AliasNames = {}
              /\ \A c \in DOMAIN below :
                    below[c] = Cardinality({i \in CanonCities(c) :
                                   data[i].AQI_Value < aqi_threshold})
              /\ \A c \in DOMAIN above :
                    above[c] = Cardinality({i \in CanonCities(c) :
                                   data[i].AQI_Value > aqi_threshold})
              /\ \A c \in DOMAIN pm25_pivot :
                    \A k \in DOMAIN pm25_pivot[c] :
                        pm25_pivot[c][k] =
                            Cardinality({i \in CanonCities(c) :
                                data[i].PM25_AQI_Category = k})
              /\ \A c \in DOMAIN country_percentages :
                    /\ country_percentages[c].den =
                          Cardinality(CanonCities(c))
                    /\ country_percentages[c].num =
                          100 * Cardinality({i \in CanonCities(c) :
                              data[i].PM25_AQI_Category = selected_category})

\* C8's case: the file names one city "Russia" and one "Russian Federation";
\* the two are one group of two in the country summary, and "Russia" is a row of the threshold counts, of the pivot and
\* of the percentages.
C8_Witness ==
    /\ pc = "ready"
    /\ ~raised
    /\ \E i, j \in DOMAIN data :
          /\ FileName(i) = "Russia"
          /\ FileName(j) = "Russian Federation"
    /\ "Russia" \in DOMAIN country_stats
    /\ country_stats["Russia"].count = 2
    /\ "Russia" \in (DOMAIN below \cup DOMAIN above)
    /\ "Russia" \in DOMAIN pm25_pivot
    /\ "Russia" \in DOMAIN country_percentages

-----------------------------------------------------------------------------
\* The sum of the cells of one row of the pivot.
RECURSIVE CellTotal(_, _)
CellTotal(row, cols) ==
    IF cols = <<>> THEN 0
    ELSE row[Head(cols)] + CellTotal(row, Tail(cols))

PivotRowTotal(row) == CellTotal(row, SortedLabels(DOMAIN row))

\* C4: for every country row retained in the category pivot, the sum of the
\* row's category counts equals the country's city count in the cleaned
\* dataset, also when some of its records have no PM2.5 AQI Category.
C4_PivotRowSums ==
    (pc = "ready" /\ ~raised) =>
        \A c \in DOMAIN pm25_pivot :
            PivotRowTotal(pm25_pivot[c]) = CityCount(c)

-----------------------------------------------------------------------------
\* The cities of country c that have the selected category.
CategoryCities(c) ==
    {i \in Cities(c) : data[i].PM25_AQI_Category = selected_category}

\* The countries that meet the minimum-cities threshold and have a city of
\* the selected category.
Ranked ==
    {c \in DataCountries :
        CityCount(c) >= min_cities /\ CategoryCities(c) # {}}

\* Country c has a larger percentage than d / the same percentage as d.
PctGreater(c, d) ==
    Cardinality(CategoryCities(c)) * CityCount(d)
        > Cardinality(CategoryCities(d)) * CityCount(c)

PctEqual(c, d) ==
    Cardinality(CategoryCities(c)) * CityCount(d)
        = Cardinality(CategoryCities(d)) * CityCount(c)

\* Descending by percentage; equal percentages stay in the order the
\* countries have before the sort, the order of their labels.
StableDescending(o) ==
    \A i, j \in DOMAIN o :
        i < j =>
            \/ PctGreater(o[i], o[j])
            \/ PctEqual(o[i], o[j]) /\ LabelRank(o[i]) < LabelRank(o[j])

====
